---- MODULE Spec2Model ----
(***************************************************************************)
(* The knowledge-base synchronisation engine of src/src/knowledge_base.py: *)
(* KnowledgeBase (add_document, _remove_document, the hash map and its     *)
(* file_hashes.json), scan_directory, DocumentWatcher and                  *)
(* start_document_monitor.  Two processes use the same Milvus collection   *)
(* and the same file_hashes.json: "monitor" runs start_document_monitor    *)
(* (src/main.py), "demo" builds a KnowledgeBase and scans once             *)
(* (src/demo.py).  Every network call, file read and file write is one     *)
(* step.  The environment edits and deletes files and makes the embedding  *)
(* provider, the parser, the vector store and the hash file fail.          *)
(*                                                                         *)
(* Specifications:                                                         *)
(*   Spec        the monitor alone, with every failure                     *)
(*   SpecPair    the monitor and the demo side by side, no failure         *)
(*   SpecExt     the monitor over files of any suffix, no failure          *)
(*   SpecCrash   the monitor killed at any step, no failure                *)
(*   SpecFn      one run of the functional variant                         *)
(*               (src/src_functional/knowledge_base.py, src/src/main.py)   *)
(*   SpecBoot    two constructors initialising the collection              *)
(*   SpecSearch  KnowledgeBase.search and search_kb                        *)
(*   SpecDocs    one scan over two documents, with every failure           *)
(*   SpecStop    the monitor interrupted from the keyboard, no failure     *)
(*   SpecFnDocs  the functional scan over two documents, every failure     *)
(*   SpecHash    the hash maps as objects: who sees an update              *)
(*   SpecIngest  process_document of both variants                         *)
(*   SpecShared  instances bound to collections on one file_hashes.json    *)
(*   SpecBackup  backup_collection_data (src/tools/milvus_tool.py)         *)
(***************************************************************************)
EXTENDS Integers, Sequences, FiniteSets, TLC

VARIABLES
    files,        \* the documents directory: path -> content, or NoFile
    store,        \* the records of the Milvus collection
    nextId,       \* the next auto_id primary key of the collection
    file_hashes,  \* KnowledgeBase.file_hashes of each process
    hash_file,    \* file_hashes.json on disk
    queue,        \* the observer's pending events of each process
    phase,        \* where each process is in its main routine
    todo,         \* the files scan_directory has still to visit
    pc,           \* the step of add_document / _remove_document in progress
    cur,          \* the locals of the call in progress
    h,            \* per process: what the last call did (history)
    dirty,        \* per process and path: content changed since the last add_document began
    prevRes,      \* per process and path: how the last add_document ended
    burst,        \* per process and path: completed resyncs of the current event burst
    edits,        \* number of writes and deletions the environment has made
    collection,   \* the Milvus collection itself: whether it exists, its vector dimension
    boot,         \* per process: the collection initialisation call in progress or last made
    srch,         \* the search call in progress or last made
    refs,         \* the hash maps as objects: which dict each reference points to
    backup,       \* the backup_collection_data call in progress or last made
    ingest,       \* the process_document call in progress or last made
    shared        \* instances on one file_hashes.json, each bound to a collection

vars ==
    <<files, store, nextId, file_hashes, hash_file, queue, phase, todo, pc, cur,
      h, dirty, prevRes, burst, edits, collection, boot, srch, refs, backup,
      ingest, shared>>

\* The variables of synchronisation, and those of initialisation and search.
syncVars ==
    <<files, store, nextId, file_hashes, hash_file, queue, phase, todo, pc, cur,
      h, dirty, prevRes, burst, edits>>

\* The variables of initialisation and search, of the hash maps taken as
\* objects and of the backup tool: no step of synchronisation touches them.
toolVars == <<refs, backup, ingest, shared>>
serviceVars == <<collection, boot, srch, refs, backup, ingest, shared>>

----------------------------------------------------------------------------
(* Bounds and inputs *)

NumContents == 2
MaxEdits == 2
MaxQueue == 2
EmbedDim == 2
MaxInits == 2
NumQueries == 2
MaxLimit == 2

Inst == {"monitor", "demo"}
Watchers == {"monitor"}

PathOrder ==
    << [stem |-> "a", suffix |-> ".md"], [stem |-> "b", suffix |-> ".exe"],
       [stem |-> "c", suffix |-> ".txt"] >>
Paths == {PathOrder[n] : n \in 1..Len(PathOrder)}
NoPath == [stem |-> "", suffix |-> ""]

NoFile == 0
Contents == 1..NumContents
NoHash == 0

\* The elements the unstructured partitioner yields for a file content.
Elements(c) ==
    CASE c = 1 -> <<"gamma", " ">>
      [] c = 2 -> <<"alpha", "beta">>
      [] OTHER -> <<" ">>

----------------------------------------------------------------------------
(* Pure helpers *)

strip(t) == IF t \in {"", " "} THEN "" ELSE t

_get_file_hash(c) == 100 + c

\* A change check that never finds a file unchanged.
_file_changed_always(current_hash, stored_hash) == current_hash = current_hash

\* A change check that finds a file changed only while it has no recorded
\* hash (for comparison).
_file_changed_new_only(current_hash, stored_hash) == stored_hash = NoHash

_file_changed(current_hash, stored_hash) == current_hash # stored_hash

Enumerate(s) == [n \in 1..Len(s) |-> [i |-> n - 1, text |-> s[n]]]

KeepElement(e) == strip(e.text) # ""

process_document(p, c) ==
    LET kept == SelectSeq(Enumerate(Elements(c)), KeepElement)
    IN  [n \in 1..Len(kept) |->
            [id |-> <<p.stem, kept[n].i>>, text |-> kept[n].text, source |-> p]]

Stored(st, p) == {r \in st : r.source = p}

\* client.insert with auto_id: one record per entry of data, fresh primary keys.
Inserted(data, first) ==
    {[id |-> first + n - 1, source |-> data[n].source, text |-> data[n].text,
      chunk_id |-> data[n].id] : n \in 1..Len(data)}

\* What a chunk list looks like in the store, primary keys aside.
ChunkSet(chunks) == {[chunk_id |-> chunks[n].id, text |-> chunks[n].text] : n \in 1..Len(chunks)}
Shape(recs) == {[chunk_id |-> r.chunk_id, text |-> r.text] : r \in recs}

EmptyMap == [p \in Paths |-> NoHash]

supported_extensions == {".pdf", ".md", ".txt", ".docx", ".html"}

lower(s) ==
    CASE s = ".MD" -> ".md"
      [] s = ".TXT" -> ".txt"
      [] s = ".PDF" -> ".pdf"
      [] s = ".EXE" -> ".exe"
      [] OTHER -> s

\* A suffix test that lets every file through (for comparison).
Supported_always(p) == lower(p.suffix) \in supported_extensions \cup {lower(p.suffix)}

Supported(p) == lower(p.suffix) \in supported_extensions

\* The paths with a supported suffix.
Docs == {p \in Paths : lower(p.suffix) \in supported_extensions}

\* The one document of the specifications that follow a single file, and the
\* paths of the specification that adds the files of unsupported suffix.
OneDoc == {PathOrder[1]}
ExtPaths == OneDoc \cup (Paths \ Docs)

\* The directories in which only the paths of ps may hold a file.
Files(ps) ==
    {f \in [Paths -> Contents \cup {NoFile}] : \A p \in Paths \ ps : f[p] = NoFile}

----------------------------------------------------------------------------
(* Initial state *)

IdleCall ==
    [op |-> "none", path |-> NoPath, chunks |-> <<>>, ids |-> {}, i |-> 1,
     data |-> <<>>, trigger |-> "none"]

H0 ==
    [op |-> "none", path |-> NoPath, trigger |-> "none", result |-> "none",
     prev |-> "none", clean1 |-> FALSE, parsed |-> NoFile, hashed |-> NoFile,
     embedCalls |-> 0, embedFails |-> 0, deleted |-> {}, inserted |-> {},
     storeWrites |-> 0, memWrote |-> FALSE, diskWrote |-> FALSE, faults |-> {},
     overlap |-> {}, pre |-> {}, preMem |-> NoHash, post |-> {}, postMem |-> NoHash,
     postDisk |-> [readable |-> TRUE, map |-> EmptyMap],
     preDisk |-> [readable |-> TRUE, map |-> EmptyMap],
     killedAt |-> "none", killedMem |-> EmptyMap, ignored |-> NoPath,
     walk |-> <<>>, visits |-> [p \in Paths |-> 0], scanIn |-> EmptyMap,
     stopAt |-> "none", stopIn |-> "none", late |-> FALSE,
     removed |-> 0, preStore |-> {}, preMaps |-> EmptyMap]

\* No hash map looked at as an object yet, no backup call made yet.
Refs0 ==
    [variant |-> "none", heap |-> <<>>, live |-> {}, cur |-> 0, snap |-> 0,
     before |-> EmptyMap, path |-> NoPath, content |-> NoFile, out |-> 0, calls |-> 0]

Backup0 ==
    [pc |-> "idle", exists |-> FALSE, records |-> {}, batch_size |-> 0,
     all_data |-> <<>>, offset |-> 0, queries |-> 0, faults |-> {},
     outcome |-> "none", count |-> 0]

\* No process_document call made yet.
Ingest0 ==
    [variant |-> "none", pc |-> "idle", elements |-> <<>>, i |-> 1, chunks |-> <<>>,
     faults |-> {}, outcome |-> "none", calls |-> 0]

\* No instance looked at together with the collection it is bound to.
Shared0 ==
    [content |-> [p \in Paths |-> NoFile], coll |-> [k \in Inst |-> "none"],
     built |-> {}, mem |-> [k \in Inst |-> EmptyMap], disk |-> EmptyMap,
     chunks |-> {}, last |-> [k |-> "none", op |-> "none", path |-> NoPath,
                              result |-> "none", diskBefore |-> EmptyMap]]

\* The collection: absent, or created with a vector field of dimension d.
NoCollection == [exists |-> FALSE, dim |-> 0, version |-> 0]
Collection(d) == [exists |-> TRUE, dim |-> d, version |-> 1]

Variants == {"class", "functional"}

\* No initialisation call made yet by a process running variant v.
Boot0(v) ==
    [variant |-> v, pc |-> "idle", calls |-> 0, dimension |-> 0, probes |-> 0,
     requests |-> 0, outcome |-> "none", before |-> NoCollection,
     probed |-> "none", created |-> 0]

\* No search call made yet.
Srch0(v) ==
    [variant |-> v, pc |-> "idle", query |-> 0, limit |-> 0, embedding |-> <<>>,
     hits |-> <<>>, results |-> <<>>, outcome |-> "none", searches |-> 0,
     faults |-> {}, found |-> FALSE]

\* The constructor of a process running variant v has returned, having
\* found the collection.
Booted(v) ==
    [Boot0(v) EXCEPT !.calls = 1, !.outcome = "exists", !.before = Collection(EmbedDim)]

\* The collection exists and every constructor has returned: the state in
\* which scans, events and searches run.
ServiceReady ==
    /\ collection = Collection(EmbedDim)
    /\ boot = [k \in Inst |-> Booted("class")]
    /\ srch = Srch0("class")
    /\ refs = Refs0
    /\ backup = Backup0
    /\ ingest = Ingest0
    /\ shared = Shared0

\* The processes are about to scan the directory dir.
Started(dir) ==
    /\ ServiceReady
    /\ files = dir
    /\ store = {}
    /\ nextId = 1
    /\ file_hashes = [k \in Inst |-> EmptyMap]
    /\ hash_file = [readable |-> TRUE, map |-> EmptyMap]
    /\ queue = [k \in Inst |-> <<>>]
    /\ phase = [k \in Inst |-> "start"]
    /\ todo = [k \in Inst |-> <<>>]
    /\ pc = [k \in Inst |-> "idle"]
    /\ cur = [k \in Inst |-> IdleCall]
    /\ h = [k \in Inst |-> H0]
    /\ dirty = [k \in Inst |-> [p \in Paths |-> FALSE]]
    /\ prevRes = [k \in Inst |-> [p \in Paths |-> "none"]]
    /\ burst = [k \in Inst |-> [p \in Paths |-> 0]]
    /\ edits = 0

\* A documents directory of one supported file.
Init == \E dir \in Files(OneDoc) : Started(dir)

\* A documents directory with files of any suffix.
InitExt == \E dir \in Files(ExtPaths) : Started(dir)

\* The program starts again over a directory whose files are among ps, in the
\* state an earlier run left: document p indexed with content c0 and its hash
\* saved, or nothing indexed (c0 = NoFile); _load_file_hashes has read the
\* file.
Restarted(p, ps) ==
    \E c0 \in Contents \cup {NoFile} :
        LET recs == IF c0 = NoFile THEN {} ELSE Inserted(process_document(p, c0), 1)
            map == [EmptyMap EXCEPT ![p] = IF recs = {} THEN NoHash ELSE _get_file_hash(c0)]
        IN  /\ ServiceReady
            /\ files \in Files(ps)
            /\ store = recs
            /\ nextId = 1 + Cardinality(recs)
            /\ file_hashes = [k \in Inst |-> map]
            /\ hash_file = [readable |-> TRUE, map |-> map]
            /\ queue = [k \in Inst |-> <<>>]
            /\ phase = [k \in Inst |-> "start"]
            /\ todo = [k \in Inst |-> <<>>]
            /\ pc = [k \in Inst |-> "idle"]
            /\ cur = [k \in Inst |-> IdleCall]
            /\ h = [k \in Inst |-> H0]
            /\ dirty = [k \in Inst |-> [q \in Paths |-> FALSE]]
            /\ prevRes = [k \in Inst |-> [q \in Paths |-> "none"]]
            /\ burst = [k \in Inst |-> [q \in Paths |-> 0]]
            /\ edits = 0

\* A documents directory of several supported files, the last one indexed by
\* an earlier run.
InitDocs == Restarted(PathOrder[Len(PathOrder)], Docs)

\* A documents directory of one supported file, indexed by an earlier run.
InitAgain == Restarted(PathOrder[1], OneDoc)

----------------------------------------------------------------------------
(* Bookkeeping shared by the steps *)

Concurrent(k, p) == {j \in Inst \ {k} : pc[j] # "idle" /\ cur[j].path = p}

\* os.walk over the documents directory, filtered by suffix.
Walk == SelectSeq(PathOrder, LAMBDA p : files[p] # NoFile /\ Supported(p))

\* A call begins: add_document (op "add") or _remove_document (op "remove").
Begin(k, p, op, trig) ==
    /\ pc[k] = "idle"
    /\ pc' = [pc EXCEPT ![k] = IF op = "add" THEN "check" ELSE "query"]
    /\ cur' = [cur EXCEPT ![k] = [IdleCall EXCEPT !.op = op, !.path = p, !.trigger = trig]]
    /\ h' = [j \in Inst |->
                IF j = k
                THEN [H0 EXCEPT !.op = op, !.path = p, !.trigger = trig,
                                !.prev = prevRes[k][p], !.clean1 = ~dirty[k][p],
                                !.overlap = Concurrent(k, p),
                                !.pre = Stored(store, p),
                                !.preMem = file_hashes[k][p],
                                !.preDisk = hash_file,
                                !.walk = h[k].walk,
                                !.visits = IF trig = "scan"
                                           THEN [h[k].visits EXCEPT ![p] = @ + 1]
                                           ELSE h[k].visits,
                                !.scanIn = h[k].scanIn,
                                !.stopAt = h[k].stopAt,
                                !.stopIn = h[k].stopIn,
                                !.late = h[k].stopAt # "none",
                                !.preStore = store,
                                !.preMaps = file_hashes[k]]
                ELSE IF j \in Concurrent(k, p)
                     THEN [h[j] EXCEPT !.overlap = @ \cup {k}]
                     ELSE h[j]]
    /\ dirty' = IF op = "add" THEN [dirty EXCEPT ![k][p] = FALSE] ELSE dirty

\* The call returns: res is "Unchanged", "Failed", "Indexed" (add_document) or
\* "Removed" (_remove_document); st, fh, hf are the store, the hash maps and
\* the hash file as the returning step leaves them.
Finish(k, res, hk, st, fh, hf) ==
    LET p == cur[k].path
    IN  /\ pc' = [pc EXCEPT ![k] = "idle"]
        /\ cur' = [cur EXCEPT ![k] = IdleCall]
        /\ h' = [h EXCEPT ![k] = [hk EXCEPT !.result = res,
                                           !.post = Stored(st, p),
                                           !.postMem = fh[k][p],
                                           !.postDisk = hf]]
        /\ prevRes' = IF cur[k].op = "add" THEN [prevRes EXCEPT ![k][p] = res] ELSE prevRes
        /\ burst' = IF res = "Indexed" /\ hk.faults = {} /\ cur[k].trigger = "event"
                    THEN [burst EXCEPT ![k][p] = @ + 1]
                    ELSE burst

Fault(hk, f) == [hk EXCEPT !.faults = @ \cup {f}]

\* A handler that catches the errors of file access only (for comparison).
except_IOError(e) == IF e = "io" THEN "Failed" ELSE "Raised"

\* add_document, "except Exception as e: print(...); return False", around the
\* whole body: how the call ends when the body raises e. KeyboardInterrupt is
\* the one exception of the model that is not an Exception.
except_Exception(e) == IF e # "KeyboardInterrupt" THEN "Failed" ELSE "Raised"

\* An exception that left add_document ends the loop or the thread that made
\* the call: scan_directory's "for" and the handlers have no try of their own.
Propagate(k) ==
    /\ phase' = [phase EXCEPT ![k] = "dead"]
    /\ todo' = [todo EXCEPT ![k] = <<>>]
    /\ UNCHANGED <<pc, cur, h, dirty, queue>>

----------------------------------------------------------------------------
(* The environment: writers of the documents directory *)

\* An event for p of a burst in progress at watcher k: an earlier create or
\* modify event for p is still queued or its handler has not returned.
InBurst(k, p) ==
    \/ \E n \in 1..Len(queue[k]) : queue[k][n].path = p /\ queue[k][n].kind # "deleted"
    \/ pc[k] # "idle" /\ cur[k].path = p /\ cur[k].op = "add" /\ cur[k].trigger = "event"

Emit(kind, p) ==
    /\ \A k \in Inst : phase[k] = "watch" => Len(queue[k]) < MaxQueue
    /\ queue' = [k \in Inst |->
                    IF phase[k] = "watch"
                    THEN Append(queue[k], [kind |-> kind, path |-> p])
                    ELSE queue[k]]
    /\ burst' = [k \in Inst |->
                    IF phase[k] = "watch" /\ kind # "deleted" /\ ~InBurst(k, p)
                    THEN [burst[k] EXCEPT ![p] = 0]
                    ELSE burst[k]]

WriteFile(p, c) ==
    /\ edits < MaxEdits
    /\ edits' = edits + 1
    /\ files' = [files EXCEPT ![p] = c]
    /\ dirty' = [k \in Inst |-> [dirty[k] EXCEPT ![p] = @ \/ c # files[p]]]
    /\ Emit(IF files[p] = NoFile THEN "created" ELSE "modified", p)
    /\ UNCHANGED serviceVars
    /\ UNCHANGED <<store, nextId, file_hashes, hash_file, phase, todo, pc, cur, h, prevRes>>

DeleteFile(p) ==
    /\ edits < MaxEdits
    /\ files[p] # NoFile
    /\ edits' = edits + 1
    /\ files' = [files EXCEPT ![p] = NoFile]
    /\ dirty' = [k \in Inst |-> [dirty[k] EXCEPT ![p] = TRUE]]
    /\ Emit("deleted", p)
    /\ UNCHANGED serviceVars
    /\ UNCHANGED <<store, nextId, file_hashes, hash_file, phase, todo, pc, cur, h, prevRes>>

----------------------------------------------------------------------------
(* The drivers: scan_directory and the observer's dispatch thread *)

ScanBegin(k) ==
    /\ phase[k] = "start"
    /\ phase' = [phase EXCEPT ![k] = "scan"]
    /\ todo' = [todo EXCEPT ![k] = Walk]
    /\ h' = [h EXCEPT ![k].walk = Walk, ![k].scanIn = file_hashes[k]]
    /\ UNCHANGED serviceVars
    /\ UNCHANGED <<files, store, nextId, file_hashes, hash_file, queue, pc, cur,
                   dirty, prevRes, burst, edits>>

ScanNext(k) ==
    /\ phase[k] = "scan"
    /\ todo[k] # <<>>
    /\ pc[k] = "idle"
    /\ IF h[k].result = "Raised"
       THEN Propagate(k)
       ELSE /\ Begin(k, Head(todo[k]), "add", "scan")
            /\ todo' = [todo EXCEPT ![k] = Tail(@)]
            /\ UNCHANGED <<queue, phase>>
    /\ UNCHANGED serviceVars
    /\ UNCHANGED <<files, store, nextId, file_hashes, hash_file, prevRes, burst, edits>>

\* After the initial scan the monitor starts its observer; the demo goes on
\* to its searches and never touches the documents again.
ScanEnd(k) ==
    /\ phase[k] = "scan"
    /\ todo[k] = <<>>
    /\ pc[k] = "idle"
    /\ phase' = [phase EXCEPT ![k] = IF h[k].result = "Raised" THEN "dead"
                                     ELSE IF k \in Watchers THEN "watch" ELSE "exit"]
    /\ UNCHANGED serviceVars
    /\ UNCHANGED <<files, store, nextId, file_hashes, hash_file, queue, todo, pc, cur,
                   h, dirty, prevRes, burst, edits>>

\* DocumentWatcher.on_created / on_modified / on_deleted, one event at a time.
Dispatch(k) ==
    /\ phase[k] = "watch"
    /\ pc[k] = "idle"
    /\ queue[k] # <<>>
    /\ IF h[k].result = "Raised"
       THEN Propagate(k)
       ELSE /\ queue' = [queue EXCEPT ![k] = Tail(@)]
            /\ LET e == Head(queue[k])
               IN  IF Supported(e.path)
                   THEN Begin(k, e.path, IF e.kind = "deleted" THEN "remove" ELSE "add",
                              "event")
                   ELSE /\ h' = [h EXCEPT ![k].ignored = e.path]
                        /\ UNCHANGED <<pc, cur, dirty>>
            /\ UNCHANGED <<phase, todo>>
    /\ UNCHANGED serviceVars
    /\ UNCHANGED <<files, store, nextId, file_hashes, hash_file, prevRes, burst, edits>>

----------------------------------------------------------------------------
(* The embedding provider *)

\* A vector of d floats.
Vector(d) == [n \in 1..d |-> 1]

\* What ollama's client.embed can do: raise, answer without embeddings,
\* answer with an empty vector, answer with a vector of d floats.
Responses(d) ==
    {[raises |-> TRUE, embeddings |-> <<>>],
     [raises |-> FALSE, embeddings |-> <<>>],
     [raises |-> FALSE, embeddings |-> << <<>> >>],
     [raises |-> FALSE, embeddings |-> << Vector(d) >>]}

\* DirectOllamaLLM.embed: the first embedding, [] when there is none or
\* when the client raises.
embed(resp) ==
    IF resp.raises THEN <<>>
    ELSE IF resp.embeddings # <<>> THEN resp.embeddings[1] ELSE <<>>

extract_embedding_from_response(resp) ==
    IF resp.embeddings # <<>> THEN resp.embeddings[1] ELSE <<>>

\* embed_text under with_error_handling: an EmbeddingResult, with an error
\* only when the client raised.
embed_text(resp) ==
    IF resp.raises
    THEN [embedding |-> <<>>, error |-> "raised"]
    ELSE [embedding |-> extract_embedding_from_response(resp), error |-> "None"]

is_success(result) == result.error = "None"

\* The answers the provider gives while documents are embedded: where it may
\* fail, any answer, with a vector of the collection's dimension or one float
\* longer.
EmbedResponses(oks) ==
    IF FALSE \in oks
    THEN Responses(collection.dim) \cup Responses(collection.dim + 1)
    ELSE {[raises |-> FALSE, embeddings |-> << Vector(collection.dim) >>]}

----------------------------------------------------------------------------
(* KnowledgeBase.add_document and KnowledgeBase._remove_document, step by step *)

\* The call goes on to its next step.
Go(k, next, c, hk) ==
    /\ pc' = [pc EXCEPT ![k] = next]
    /\ cur' = [cur EXCEPT ![k] = c]
    /\ h' = [h EXCEPT ![k] = hk]
    /\ UNCHANGED <<prevRes, burst>>

\* add_document, "if not self._file_changed(file_path)": reads the file; a
\* missing file raises and the except clause returns False.
Check(k) ==
    /\ pc[k] = "check"
    /\ LET p == cur[k].path
       IN  IF files[p] = NoFile
           THEN Finish(k, except_Exception("io"), Fault(h[k], "io"),
                       store, file_hashes, hash_file)
           ELSE IF ~_file_changed(_get_file_hash(files[p]), file_hashes[k][p])
                THEN Finish(k, "Unchanged", h[k], store, file_hashes, hash_file)
                ELSE Go(k, "parse", cur[k], h[k])
    /\ UNCHANGED serviceVars
    /\ UNCHANGED <<files, store, nextId, file_hashes, hash_file, queue, phase, todo,
                   dirty, edits>>

\* A filter that matches the records of every source (for comparison).
source_filter_any(r, p) == r.source = r.source

\* The filter 'source == "{file_path}"' of _remove_document's query.
source_filter(r, p) == r.source = p

\* A list that Python's "not" takes as false: always (for comparison).
not_chunks_never(chunks) == FALSE

\* add_document, "if not chunks": the list of chunks is empty.
not_chunks(chunks) == chunks = <<>>

\* "chunks = self.processor.process_document(file_path)": the partitioner
\* reads the file again; when it raises, process_document returns [].
Parse(k, oks) ==
    /\ pc[k] = "parse"
    /\ \E ok \in oks :
        LET p == cur[k].path
            chunks == IF ok THEN process_document(p, files[p]) ELSE <<>>
            hk == IF ~ok THEN Fault(h[k], "parse")
                  ELSE IF chunks = <<>> THEN Fault([h[k] EXCEPT !.parsed = files[p]], "empty")
                  ELSE [h[k] EXCEPT !.parsed = files[p]]
        IN  /\ ok => files[p] # NoFile
            /\ IF not_chunks(chunks)
               THEN Finish(k, "Failed", hk, store, file_hashes, hash_file)
               ELSE Go(k, "query", [cur[k] EXCEPT !.chunks = chunks], hk)
    /\ UNCHANGED serviceVars
    /\ UNCHANGED <<files, store, nextId, file_hashes, hash_file, queue, phase, todo,
                   dirty, edits>>

\* _remove_document has returned (normally or through its except clause):
\* add_document goes on to the embeddings, on_deleted returns.
AfterRemove(k, c, hk, st) ==
    IF cur[k].op = "add"
    THEN Go(k, "embed", c, hk)
    ELSE Finish(k, "Removed", hk, st, file_hashes, hash_file)

\* _remove_document, has_collection and query: the primary keys of the
\* records whose source is the path; a store error is caught and printed.
Query(k, oks) ==
    /\ pc[k] = "query"
    /\ \E ok \in oks :
        LET p == cur[k].path
            ids == {r.id : r \in {x \in store : source_filter(x, p)}}
        IN  IF ~ok
            THEN AfterRemove(k, cur[k], Fault(h[k], "store"), store)
            ELSE IF ids = {}
                 THEN AfterRemove(k, cur[k], h[k], store)
                 ELSE Go(k, "delete", [cur[k] EXCEPT !.ids = ids], h[k])
    /\ UNCHANGED serviceVars
    /\ UNCHANGED <<files, store, nextId, file_hashes, hash_file, queue, phase, todo,
                   dirty, edits>>

\* _remove_document, "self.milvus_client.delete(ids=ids_to_delete)".
Delete(k, oks) ==
    /\ pc[k] = "delete"
    /\ \E ok \in oks :
        LET gone == {r \in store : r.id \in cur[k].ids}
            st == IF ok THEN store \ gone ELSE store
            hk == IF ok
                  THEN [h[k] EXCEPT !.deleted = gone, !.storeWrites = @ + 1,
                                    !.removed = Cardinality(cur[k].ids)]
                  ELSE Fault([h[k] EXCEPT !.storeWrites = @ + 1], "store")
        IN  /\ store' = st
            /\ AfterRemove(k, [cur[k] EXCEPT !.ids = {}], hk, st)
    /\ UNCHANGED serviceVars
    /\ UNCHANGED <<files, nextId, file_hashes, hash_file, queue, phase, todo,
                   dirty, edits>>

\* One turn of "for chunk in chunks": llm.embed returns the vector, or [] on
\* any failure, and only a non-empty vector adds an entry to data.
Embed(k, oks) ==
    /\ pc[k] = "embed"
    /\ \E resp \in EmbedResponses(oks) :
        LET c == cur[k]
            chunk == c.chunks[c.i]
            embedding == embed(resp)
            called == [h[k] EXCEPT !.embedCalls = @ + 1]
            hk == IF embedding = <<>>
                  THEN Fault([called EXCEPT !.embedFails = @ + 1], "embed")
                  ELSE IF Len(embedding) # collection.dim THEN Fault(called, "dim")
                  ELSE called
        IN  Go(k, IF c.i = Len(c.chunks) THEN "insert" ELSE "embed",
               [c EXCEPT !.i = @ + 1,
                         !.data = IF embedding # <<>>
                                  THEN Append(@, [id |-> chunk.id, text |-> chunk.text,
                                                  source |-> chunk.source,
                                                  vector |-> embedding])
                                  ELSE @],
               hk)
    /\ UNCHANGED serviceVars
    /\ UNCHANGED <<files, store, nextId, file_hashes, hash_file, queue, phase, todo,
                   dirty, edits>>

\* Milvus takes an insert only when every vector has the dimension of the
\* collection's vector field.
DimsFit(data) == \A n \in 1..Len(data) : Len(data[n].vector) = collection.dim

\* "if data: self.milvus_client.insert(...)", else "return False".
Insert(k, oks) ==
    /\ pc[k] = "insert"
    /\ \E ok \in oks :
        LET c == cur[k]
            new == Inserted(c.data, nextId)
        IN  IF c.data = <<>>
            THEN /\ ok
                 /\ Finish(k, "Failed", h[k], store, file_hashes, hash_file)
                 /\ UNCHANGED <<store, nextId>>
            ELSE IF ok /\ DimsFit(c.data)
                 THEN /\ store' = store \cup new
                      /\ nextId' = nextId + Len(c.data)
                      /\ Go(k, "hash", c, [h[k] EXCEPT !.inserted = new, !.storeWrites = @ + 1])
                 ELSE /\ Finish(k, except_Exception("store"),
                                Fault([h[k] EXCEPT !.storeWrites = @ + 1],
                                      IF DimsFit(c.data) THEN "store" ELSE "rejected"),
                                store, file_hashes, hash_file)
                      /\ UNCHANGED <<store, nextId>>
    /\ UNCHANGED serviceVars
    /\ UNCHANGED <<files, file_hashes, hash_file, queue, phase, todo, dirty, edits>>

\* "self.file_hashes[file_path] = self._get_file_hash(file_path)": the file
\* is read a third time.
Hash(k) ==
    /\ pc[k] = "hash"
    /\ LET p == cur[k].path
       IN  IF files[p] = NoFile
           THEN /\ Finish(k, except_Exception("io"), Fault(h[k], "io"),
                          store, file_hashes, hash_file)
                /\ UNCHANGED file_hashes
           ELSE /\ file_hashes' = [file_hashes EXCEPT ![k][p] = _get_file_hash(files[p])]
                /\ Go(k, "save_open", cur[k],
                      [h[k] EXCEPT !.memWrote = TRUE, !.hashed = files[p]])
    /\ UNCHANGED serviceVars
    /\ UNCHANGED <<files, store, nextId, hash_file, queue, phase, todo, dirty, edits>>

\* _save_file_hashes, open("file_hashes.json", 'w'): truncates the file.
SaveOpen(k, oks) ==
    /\ pc[k] = "save_open"
    /\ \E ok \in oks :
        IF ok
        THEN /\ hash_file' = [readable |-> FALSE, map |-> EmptyMap]
             /\ Go(k, "save_dump", cur[k], [h[k] EXCEPT !.diskWrote = TRUE])
        ELSE /\ Finish(k, except_Exception("io"), Fault(h[k], "save"),
                       store, file_hashes, hash_file)
             /\ UNCHANGED hash_file
    /\ UNCHANGED serviceVars
    /\ UNCHANGED <<files, store, nextId, file_hashes, queue, phase, todo, dirty, edits>>

\* _save_file_hashes, json.dump and close: the whole map of this process.
SaveDump(k, oks) ==
    /\ pc[k] = "save_dump"
    /\ \E ok \in oks :
        LET hf == IF ok THEN [readable |-> TRUE, map |-> file_hashes[k]] ELSE hash_file
        IN  /\ hash_file' = hf
            /\ Finish(k, IF ok THEN "Indexed" ELSE except_Exception("io"),
                      IF ok THEN h[k] ELSE Fault(h[k], "save"),
                      store, file_hashes, hf)
    /\ UNCHANGED serviceVars
    /\ UNCHANGED <<files, store, nextId, file_hashes, queue, phase, todo, dirty, edits>>

----------------------------------------------------------------------------
(* The system *)

\* The steps of a process k that scans the directory and does not watch it
\* afterwards; oks is {TRUE, FALSE} where the embedding provider, the parser,
\* the store and the hash file may fail, {TRUE} where they do not.
ScanActs(k, oks) ==
    \/ ScanBegin(k)
    \/ ScanNext(k)
    \/ ScanEnd(k)
    \/ Check(k)
    \/ Parse(k, oks)
    \/ Query(k, oks)
    \/ Delete(k, oks)
    \/ Embed(k, oks)
    \/ Insert(k, oks)
    \/ Hash(k)
    \/ SaveOpen(k, oks)
    \/ SaveDump(k, oks)

\* The steps of the monitor: the scan, then the observer's thread.
Acts(k, oks) ==
    \/ ScanBegin(k)
    \/ ScanNext(k)
    \/ ScanEnd(k)
    \/ Dispatch(k)
    \/ Check(k)
    \/ Parse(k, oks)
    \/ Query(k, oks)
    \/ Delete(k, oks)
    \/ Embed(k, oks)
    \/ Insert(k, oks)
    \/ Hash(k)
    \/ SaveOpen(k, oks)
    \/ SaveDump(k, oks)

\* Writers of the one document.
Env ==
    \/ \E p \in OneDoc, c \in Contents : WriteFile(p, c)
    \/ \E p \in OneDoc : DeleteFile(p)

\* Supported files that are taken away while the program runs.
EnvDocs == \E p \in Docs : DeleteFile(p)

\* Writers of files of any suffix.
EnvExt ==
    \/ \E p \in ExtPaths, c \in Contents : WriteFile(p, c)
    \/ \E p \in ExtPaths : DeleteFile(p)

\* The monitor alone, with every failure the environment can produce.
Next == Env \/ Acts("monitor", BOOLEAN)

Spec == Init /\ [][Next]_vars

\* The monitor and the demo side by side, with no failures.
NextPair == Env \/ \E k \in Inst : Acts(k, {TRUE})

SpecPair == Init /\ [][NextPair]_vars

\* The monitor over a directory with files of any suffix, with no failures.
NextExt == EnvExt \/ Acts("monitor", {TRUE})

SpecExt == InitExt /\ [][NextExt]_vars

\* A scan of a directory of several supported files by a process that does
\* not watch it afterwards (src/src/demo.py), with every failure the
\* environment can produce; files may vanish during the scan.
NextDocs == EnvDocs \/ ScanActs("demo", BOOLEAN)

SpecDocs == InitDocs /\ [][NextDocs]_vars

----------------------------------------------------------------------------
(* Ctrl-C: start_document_monitor's "except KeyboardInterrupt" *)

\* KeyboardInterrupt is raised in the main thread.  In the "while True" loop
\* it is caught: observer.stop() ends the observer's loop after the handler
\* in flight.  During the initial scan the main thread is inside
\* scan_directory, outside that try: the interrupt ends the add_document in
\* flight as except_Exception tells, and the scan with it.
Interrupt(k) ==
    /\ phase[k] \in {"scan", "watch"}
    /\ h[k].stopAt = "none"
    /\ LET hk == [h[k] EXCEPT !.stopAt = pc[k], !.stopIn = phase[k]]
           res == except_Exception("KeyboardInterrupt")
       IN  IF phase[k] = "watch"
           THEN /\ phase' = [phase EXCEPT ![k] = "stopping"]
                /\ h' = [h EXCEPT ![k] = hk]
                /\ UNCHANGED <<pc, cur, prevRes, burst, todo>>
           ELSE IF pc[k] = "idle"
                THEN /\ phase' = [phase EXCEPT ![k] = "dead"]
                     /\ todo' = [todo EXCEPT ![k] = <<>>]
                     /\ h' = [h EXCEPT ![k] = hk]
                     /\ UNCHANGED <<pc, cur, prevRes, burst>>
                ELSE /\ Finish(k, res, Fault(hk, "interrupt"), store, file_hashes, hash_file)
                     /\ phase' = [phase EXCEPT ![k] = IF res = "Raised" THEN "dead" ELSE @]
                     /\ todo' = [todo EXCEPT ![k] = IF res = "Raised" THEN <<>> ELSE @]
    /\ UNCHANGED serviceVars
    /\ UNCHANGED <<files, store, nextId, file_hashes, hash_file, queue, dirty, edits>>

\* observer.join() returns once the observer's thread has ended: the handler
\* in flight has returned; the events still queued are dropped.
Join(k) ==
    /\ phase[k] = "stopping"
    /\ pc[k] = "idle"
    /\ phase' = [phase EXCEPT ![k] = "exit"]
    /\ queue' = [queue EXCEPT ![k] = <<>>]
    /\ UNCHANGED serviceVars
    /\ UNCHANGED <<files, store, nextId, file_hashes, hash_file, todo, pc, cur, h,
                   dirty, prevRes, burst, edits>>

NextStop == Env \/ Acts("monitor", {TRUE}) \/ Interrupt("monitor") \/ Join("monitor")

\* The monitor, started again and stopped with Ctrl-C, with no failures.
SpecStop == InitAgain /\ [][NextStop]_vars

----------------------------------------------------------------------------
(* The functional variant: src/src_functional/knowledge_base.py run by       *)
(* demo_knowledge_base of src/src/main.py.  add_document_to_kb takes the    *)
(* steps of add_document up to the insert, then returns the updated hash    *)
(* map to scan_and_add_directory; the caller saves the map after the scan.  *)

\* A map that holds the new entry and nothing else (for comparison).
update_file_hash_alone(file_path, hashes, c) ==
    [EmptyMap EXCEPT ![file_path] = _get_file_hash(c)]

\* update_file_hash, "{**hashes, file_path: new_hash}", c the content that
\* compute_file_hash reads.
update_file_hash(file_path, hashes, c) ==
    [hashes EXCEPT ![file_path] = _get_file_hash(c)]

\* add_document_to_kb, "new_hashes = update_file_hash(file_path, file_hashes)"
\* and "return (True, new_hashes)": the map is handed back, not saved.
FnHash(k) ==
    /\ pc[k] = "hash"
    /\ LET p == cur[k].path
           fh == [file_hashes EXCEPT ![k] = update_file_hash(p, @, files[p])]
       IN  IF files[p] = NoFile
           THEN /\ Finish(k, except_Exception("io"), Fault(h[k], "io"),
                          store, file_hashes, hash_file)
                /\ UNCHANGED file_hashes
           ELSE /\ file_hashes' = fh
                /\ Finish(k, "Indexed", [h[k] EXCEPT !.memWrote = TRUE, !.hashed = files[p]],
                          store, fh, hash_file)
    /\ UNCHANGED serviceVars
    /\ UNCHANGED <<files, store, nextId, hash_file, queue, phase, todo, dirty, edits>>

\* scan_and_add_directory returns current_hashes to demo_knowledge_base.
FnScanEnd(k) ==
    /\ phase[k] = "scan"
    /\ todo[k] = <<>>
    /\ pc[k] = "idle"
    /\ phase' = [phase EXCEPT ![k] = "save_open"]
    /\ UNCHANGED serviceVars
    /\ UNCHANGED <<files, store, nextId, file_hashes, hash_file, queue, todo, pc, cur,
                   h, dirty, prevRes, burst, edits>>

\* save_file_hashes, open(hash_file, 'w'): truncates the file; an error
\* ends demo_knowledge_base.
FnSaveOpen(k, oks) ==
    /\ phase[k] = "save_open"
    /\ \E ok \in oks :
        /\ hash_file' = IF ok THEN [readable |-> FALSE, map |-> EmptyMap] ELSE hash_file
        /\ phase' = [phase EXCEPT ![k] = IF ok THEN "save_dump" ELSE "exit"]
    /\ UNCHANGED serviceVars
    /\ UNCHANGED <<files, store, nextId, file_hashes, queue, todo, pc, cur, h, dirty,
                   prevRes, burst, edits>>

\* save_file_hashes, json.dump and close.
FnSaveDump(k, oks) ==
    /\ phase[k] = "save_dump"
    /\ \E ok \in oks :
        /\ hash_file' = IF ok THEN [readable |-> TRUE, map |-> file_hashes[k]] ELSE hash_file
        /\ phase' = [phase EXCEPT ![k] = "exit"]
    /\ UNCHANGED serviceVars
    /\ UNCHANGED <<files, store, nextId, file_hashes, queue, todo, pc, cur, h, dirty,
                   prevRes, burst, edits>>

FnActs(k, oks) ==
    \/ ScanBegin(k)
    \/ ScanNext(k)
    \/ FnScanEnd(k)
    \/ Check(k)
    \/ Parse(k, oks)
    \/ Query(k, oks)
    \/ Delete(k, oks)
    \/ Embed(k, oks)
    \/ Insert(k, oks)
    \/ FnHash(k)
    \/ FnSaveOpen(k, oks)
    \/ FnSaveDump(k, oks)

\* The functional variant starts over a directory whose files are among ps,
\* in the state an earlier run left: document p indexed with content c0 and
\* its hash saved, or nothing indexed (c0 = NoFile); load_file_hashes has
\* read the file.
RestartedFn(p, ps) ==
    \E c0 \in Contents \cup {NoFile} :
        LET recs == IF c0 = NoFile THEN {} ELSE Inserted(process_document(p, c0), 1)
            map == [EmptyMap EXCEPT ![p] = IF recs = {} THEN NoHash ELSE _get_file_hash(c0)]
        IN  /\ collection = Collection(EmbedDim)
            /\ boot = [k \in Inst |-> Booted("functional")]
            /\ srch = Srch0("functional")
            /\ refs = Refs0
            /\ backup = Backup0
            /\ ingest = Ingest0
            /\ shared = Shared0
            /\ files \in Files(ps)
            /\ store = recs
            /\ nextId = 1 + Cardinality(recs)
            /\ file_hashes = [k \in Inst |-> map]
            /\ hash_file = [readable |-> TRUE, map |-> map]
            /\ queue = [k \in Inst |-> <<>>]
            /\ phase = [k \in Inst |-> "start"]
            /\ todo = [k \in Inst |-> <<>>]
            /\ pc = [k \in Inst |-> "idle"]
            /\ cur = [k \in Inst |-> IdleCall]
            /\ h = [k \in Inst |-> H0]
            /\ dirty = [k \in Inst |-> [q \in Paths |-> FALSE]]
            /\ prevRes = [k \in Inst |-> [q \in Paths |-> "none"]]
            /\ burst = [k \in Inst |-> [q \in Paths |-> 0]]
            /\ edits = 0

\* A directory of one supported file.
InitFn == RestartedFn(PathOrder[1], OneDoc)

\* One run of demo_knowledge_base, with every failure, while files change.
NextFn == Env \/ FnActs("demo", BOOLEAN)

SpecFn == InitFn /\ [][NextFn]_vars

\* A directory of several supported files, the last one indexed earlier.
InitFnDocs == RestartedFn(PathOrder[Len(PathOrder)], Docs)

\* One run of demo_knowledge_base over that directory, with every failure,
\* while files vanish.
NextFnDocs == EnvDocs \/ FnActs("demo", BOOLEAN)

SpecFnDocs == InitFnDocs /\ [][NextFnDocs]_vars

----------------------------------------------------------------------------
(* A process that is stopped, and what the next process finds *)

\* _load_file_hashes: json.load of file_hashes.json; a file that holds no
\* complete JSON document raises out of KnowledgeBase.__init__.
_load_file_hashes(hf) == [raises |-> ~hf.readable, map |-> hf.map]

\* The process is killed at whatever step it has reached: its memory is
\* gone, the store and the hash file stay as its last completed step left
\* them.
Crash(k) ==
    /\ phase[k] \notin {"start", "stopped"}
    /\ phase' = [phase EXCEPT ![k] = "stopped"]
    /\ pc' = [pc EXCEPT ![k] = "idle"]
    /\ cur' = [cur EXCEPT ![k] = IdleCall]
    /\ todo' = [todo EXCEPT ![k] = <<>>]
    /\ queue' = [queue EXCEPT ![k] = <<>>]
    /\ file_hashes' = [file_hashes EXCEPT ![k] = EmptyMap]
    /\ h' = [h EXCEPT ![k] = [@ EXCEPT !.killedAt = pc[k], !.killedMem = file_hashes[k]]]
    /\ UNCHANGED serviceVars
    /\ UNCHANGED <<files, store, nextId, hash_file, dirty, prevRes, burst, edits>>

\* The monitor with no failure of any service, killed at any step.
NextCrash == Env \/ Acts("monitor", {TRUE}) \/ Crash("monitor")

SpecCrash == Init /\ [][NextCrash]_vars

----------------------------------------------------------------------------
(* KnowledgeBase._initialize_collection and initialize_collection *)

\* KnowledgeBase.__init__ / create_kb_context: the call begins.
InitBegin(k) ==
    /\ boot[k].pc = "idle"
    /\ boot[k].calls < MaxInits
    /\ boot' = [boot EXCEPT ![k] = [Boot0(@.variant) EXCEPT !.pc = "has",
                                                          !.calls = boot[k].calls + 1,
                                                          !.created = boot[k].created,
                                                          !.before = collection]]
    /\ UNCHANGED <<collection, srch>>
    /\ UNCHANGED syncVars
    /\ UNCHANGED toolVars

\* A has_collection that never finds the collection (for comparison).
has_collection_never(c) == c.exists /\ ~c.exists

\* client.has_collection(collection_name)
has_collection(c) == c.exists

\* "if self.milvus_client.has_collection(...)": nothing more to do.
HasCollection(k) ==
    /\ boot[k].pc = "has"
    /\ boot' = [boot EXCEPT ![k] = IF has_collection(collection)
                                   THEN [@ EXCEPT !.pc = "idle", !.outcome = "exists"]
                                   ELSE [@ EXCEPT !.pc = "probe"]]
    /\ UNCHANGED <<collection, srch>>
    /\ UNCHANGED syncVars
    /\ UNCHANGED toolVars

\* The test embedding.  Class: "if not test_embedding: raise RuntimeError".
\* Functional: create_test_embedding raises only "if not result.is_success".
ProbeEmbedding(k) ==
    /\ boot[k].pc = "probe"
    /\ \E resp \in Responses(EmbedDim) :
        LET test_embedding == IF boot[k].variant = "class" THEN embed(resp)
                              ELSE embed_text(resp).embedding
            raises == IF boot[k].variant = "class" THEN test_embedding = <<>>
                      ELSE ~is_success(embed_text(resp))
            probed == IF resp.raises THEN "error"
                      ELSE IF test_embedding = <<>> THEN "empty" ELSE "vector"
        IN  boot' = [boot EXCEPT ![k] =
                        IF raises
                        THEN [@ EXCEPT !.pc = "idle", !.probes = @ + 1, !.probed = probed,
                                       !.outcome = "fatal_probe"]
                        ELSE [@ EXCEPT !.pc = "create", !.probes = @ + 1, !.probed = probed,
                                       !.dimension = Len(test_embedding)]]
    /\ UNCHANGED <<collection, srch>>
    /\ UNCHANGED syncVars
    /\ UNCHANGED toolVars

\* Whether Milvus carries out a create_collection request: it does for a new
\* collection with a vector field of at least one float; what it does with a
\* field of dimension 0, or with the name of a collection that exists, is
\* Milvus's choice (it raises, or it answers without error).
Accepts(c, d) == IF ~c.exists /\ d >= 1 THEN {TRUE} ELSE BOOLEAN

\* create_schema, add_field(dim=dimension), create_collection (and, in the
\* functional variant, load_collection); an exception leaves the
\* constructor.
CreateCollection(k) ==
    /\ boot[k].pc = "create"
    /\ \E accepted \in Accepts(collection, boot[k].dimension) :
        /\ collection' = IF accepted /\ ~collection.exists
                         THEN [exists |-> TRUE, dim |-> boot[k].dimension,
                               version |-> collection.version + 1]
                         ELSE collection
        /\ boot' = [boot EXCEPT ![k] =
                        [@ EXCEPT !.pc = "idle", !.requests = @ + 1,
                                  !.created = IF accepted /\ ~collection.exists
                                              THEN @ + 1 ELSE @,
                                  !.outcome = IF ~accepted THEN "fatal_create"
                                              ELSE IF collection.exists THEN "joined"
                                              ELSE "created"]]
    /\ UNCHANGED srch
    /\ UNCHANGED syncVars
    /\ UNCHANGED toolVars

\* Nothing indexed, no file, no process past its constructor.
SyncIdle ==
    /\ files = [p \in Paths |-> NoFile]
    /\ store = {}
    /\ nextId = 1
    /\ file_hashes = [k \in Inst |-> EmptyMap]
    /\ hash_file = [readable |-> TRUE, map |-> EmptyMap]
    /\ queue = [k \in Inst |-> <<>>]
    /\ phase = [k \in Inst |-> "start"]
    /\ todo = [k \in Inst |-> <<>>]
    /\ pc = [k \in Inst |-> "idle"]
    /\ cur = [k \in Inst |-> IdleCall]
    /\ h = [k \in Inst |-> H0]
    /\ dirty = [k \in Inst |-> [p \in Paths |-> FALSE]]
    /\ prevRes = [k \in Inst |-> [p \in Paths |-> "none"]]
    /\ burst = [k \in Inst |-> [p \in Paths |-> 0]]
    /\ edits = 0

\* Two processes of the same program construct their knowledge base on the
\* same Milvus database, which holds the collection already or does not.
InitBoot ==
    /\ SyncIdle
    /\ collection \in {NoCollection, Collection(EmbedDim)}
    /\ \E v \in Variants : boot = [k \in Inst |-> Boot0(v)]
    /\ srch = Srch0("class")
    /\ refs = Refs0
    /\ backup = Backup0
    /\ ingest = Ingest0
    /\ shared = Shared0

NextBoot ==
    \E k \in Inst : InitBegin(k) \/ HasCollection(k) \/ ProbeEmbedding(k) \/ CreateCollection(k)

SpecBoot == InitBoot /\ [][NextBoot]_vars

----------------------------------------------------------------------------
(* KnowledgeBase.search, and search_kb with search_collection *)

\* The similarity Milvus computes between the query vector and a record's
\* vector (inner product or cosine): larger is closer.
Similarity(q, r) == (q * r.id) % 3

\* client.search(data=[query_embedding], limit=limit): the hits of the one
\* query, each with its entity and its distance.  Milvus returns the limit
\* closest records, closest first; records equally close come in any order.
Hits(recs, q, limit) ==
    LET n == IF Cardinality(recs) < limit THEN Cardinality(recs) ELSE limit
        hit(r) == [entity |-> [text |-> r.text, source |-> r.source],
                   distance |-> Similarity(q, r)]
    IN  {[i \in 1..n |-> hit(f[i])] :
            f \in {g \in [1..n -> recs] :
                      /\ \A i, j \in 1..n : i < j =>
                            g[i] # g[j] /\ Similarity(q, g[i]) >= Similarity(q, g[j])
                      /\ \A r \in recs : (\A i \in 1..n : g[i] # r) =>
                            \A i \in 1..n : Similarity(q, g[i]) >= Similarity(q, r)}}

\* A result whose score is the distance negated (for comparison).
search_result_to_dict_negated(res) ==
    [text |-> res.entity.text, source |-> res.entity.source, score |-> 0 - res.distance]

\* One hit as the service returns it: "score": res["distance"].
search_result_to_dict(res) ==
    [text |-> res.entity.text, source |-> res.entity.source, score |-> res.distance]

\* Exceptions at no step are caught (for comparison).
in_try_never(v, step) == step \notin {"has", "embed", "search"}

\* Whether the step lies inside a try block whose except clause returns [].
\* KnowledgeBase.search: the whole body.  search_kb: has_collection and
\* search, which are in search_collection; embed_text comes before.
in_try(v, step) == IF v = "class" THEN TRUE ELSE step \in {"has", "search"}

\* The call, its locals being s, returns the list rs.
Return(s, rs, fs) ==
    srch' = [s EXCEPT !.pc = "done", !.outcome = "returned", !.results = rs,
                      !.faults = @ \cup fs]

\* A store call of the step raises.
Raise(s, step) ==
    IF in_try(s.variant, step)
    THEN Return(s, <<>>, {"store"})
    ELSE srch' = [s EXCEPT !.pc = "done", !.outcome = "raised", !.faults = @ \cup {"store"}]

\* search(query, limit) is called.
SearchBegin(q, limit) ==
    /\ srch.pc \in {"idle", "done"}
    /\ srch' = [Srch0(srch.variant) EXCEPT
                    !.pc = IF srch.variant = "class" THEN "has" ELSE "embed",
                    !.query = q, !.limit = limit,
                    !.found = collection.exists /\ store # {}]
    /\ UNCHANGED <<collection, boot>>
    /\ UNCHANGED syncVars
    /\ UNCHANGED toolVars

\* "if not self.milvus_client.has_collection(...): return []"
SearchHas(oks) ==
    /\ srch.pc = "has"
    /\ \E ok \in oks :
        IF ~ok THEN Raise(srch, "has")
        ELSE IF ~has_collection(collection) THEN Return(srch, <<>>, {"nocollection"})
        ELSE srch' = [srch EXCEPT !.pc = IF srch.variant = "class" THEN "embed" ELSE "search"]
    /\ UNCHANGED <<collection, boot>>
    /\ UNCHANGED syncVars
    /\ UNCHANGED toolVars

\* The query embedding.  Class: "if not query_embedding: return []".
\* Functional: "if not result.is_success or not result.embedding: return []".
SearchEmbed(oks) ==
    /\ srch.pc = "embed"
    /\ \E resp \in IF FALSE \in oks THEN Responses(EmbedDim)
                    ELSE {[raises |-> FALSE, embeddings |-> << Vector(EmbedDim) >>]} :
        LET query_embedding == IF srch.variant = "class" THEN embed(resp)
                               ELSE embed_text(resp).embedding
            failed == IF srch.variant = "class" THEN query_embedding = <<>>
                      ELSE ~is_success(embed_text(resp)) \/ embed_text(resp).embedding = <<>>
        IN  IF failed THEN Return(srch, <<>>, {"embed"})
            ELSE srch' = [srch EXCEPT !.pc = IF srch.variant = "class" THEN "search" ELSE "has",
                                      !.embedding = query_embedding]
    /\ UNCHANGED <<collection, boot>>
    /\ UNCHANGED syncVars
    /\ UNCHANGED toolVars

\* client.search and the conversion of its hits, in the order given.
SearchStore(oks) ==
    /\ srch.pc = "search"
    /\ \E ok \in oks :
        IF ~ok
        THEN Raise([srch EXCEPT !.searches = @ + 1], "search")
        ELSE \E hits \in Hits(store, srch.query, srch.limit) :
                srch' = [srch EXCEPT !.pc = "done", !.outcome = "returned",
                                     !.searches = @ + 1, !.hits = hits,
                                     !.results = [n \in 1..Len(hits) |->
                                                     search_result_to_dict(hits[n])]]
    /\ UNCHANGED <<collection, boot>>
    /\ UNCHANGED syncVars
    /\ UNCHANGED toolVars

\* One document indexed by an earlier run (or none), the collection present
\* or not, searched by a caller of either variant.
InitSearch ==
    \E c0 \in Contents \cup {NoFile}, c \in {NoCollection, Collection(EmbedDim)}, v \in Variants :
        LET p == PathOrder[1]
            recs == IF c0 = NoFile \/ ~c.exists THEN {}
                    ELSE Inserted(process_document(p, c0), 1)
            map == [EmptyMap EXCEPT ![p] = IF recs = {} THEN NoHash ELSE _get_file_hash(c0)]
        IN  /\ collection = c
            /\ boot = [k \in Inst |-> Boot0(v)]
            /\ srch = Srch0(v)
            /\ refs = Refs0
            /\ backup = Backup0
            /\ ingest = Ingest0
            /\ shared = Shared0
            /\ files = [q \in Paths |-> IF q = p THEN c0 ELSE NoFile]
            /\ store = recs
            /\ nextId = 1 + Cardinality(recs)
            /\ file_hashes = [k \in Inst |-> map]
            /\ hash_file = [readable |-> TRUE, map |-> map]
            /\ queue = [k \in Inst |-> <<>>]
            /\ phase = [k \in Inst |-> "start"]
            /\ todo = [k \in Inst |-> <<>>]
            /\ pc = [k \in Inst |-> "idle"]
            /\ cur = [k \in Inst |-> IdleCall]
            /\ h = [k \in Inst |-> H0]
            /\ dirty = [k \in Inst |-> [q \in Paths |-> FALSE]]
            /\ prevRes = [k \in Inst |-> [q \in Paths |-> "none"]]
            /\ burst = [k \in Inst |-> [q \in Paths |-> 0]]
            /\ edits = 0

NextSearch ==
    \/ \E q \in 1..NumQueries, limit \in 1..MaxLimit : SearchBegin(q, limit)
    \/ SearchHas(BOOLEAN)
    \/ SearchEmbed(BOOLEAN)
    \/ SearchStore(BOOLEAN)

SpecSearch == InitSearch /\ [][NextSearch]_vars

----------------------------------------------------------------------------
(* The hash map as an object: self.file_hashes of the class variant, the    *)
(* dicts that update_file_hash takes and returns in the functional variant. *)
(* refs.heap maps each reference to the dict it points to; refs.cur is the  *)
(* reference the program holds (self.file_hashes, current_hashes).          *)

MaxRefs == 3
Refs == 1..MaxRefs

\* The hash maps a run may start from.
HashMaps ==
    {m \in [Paths -> {NoHash} \cup {_get_file_hash(c) : c \in Contents}] :
        \A p \in Paths \ Docs : m[p] = NoHash}

\* One call, as history: snap is the reference held before the call, before
\* the dict it pointed to then, out the reference held after the call.
Called(r, p, c, o) ==
    [r EXCEPT !.snap = refs.cur, !.before = refs.heap[refs.cur], !.path = p,
              !.content = c, !.out = o, !.cur = o, !.calls = @ + 1]

\* add_document, "self.file_hashes[file_path] = self._get_file_hash(file_path)":
\* an item assignment on the dict that self.file_hashes points to.
SetFileHash(p, c) ==
    /\ refs.variant = "class"
    /\ refs.calls < MaxRefs - 1
    /\ refs' = Called([refs EXCEPT !.heap[refs.cur][p] = _get_file_hash(c)], p, c, refs.cur)
    /\ UNCHANGED <<collection, boot, srch, backup, ingest, shared>>
    /\ UNCHANGED syncVars

\* add_document_to_kb, "new_hashes = update_file_hash(file_path, file_hashes)",
\* and scan_and_add_directory, "current_hashes = new_hashes": the dict display
\* {**hashes, file_path: new_hash} builds a new dict.
UpdateFileHash(p, c) ==
    /\ refs.variant = "functional"
    /\ refs.live # Refs
    /\ LET new == CHOOSE r \in Refs \ refs.live : \A x \in Refs \ refs.live : r <= x
       IN  refs' = Called([refs EXCEPT !.heap[new] = update_file_hash(p, refs.heap[refs.cur], c),
                                       !.live = @ \cup {new}],
                          p, c, new)
    /\ UNCHANGED <<collection, boot, srch, backup, ingest, shared>>
    /\ UNCHANGED syncVars

\* A process of either variant holds the hash map m it has loaded.
InitHash ==
    /\ SyncIdle
    /\ collection = Collection(EmbedDim)
    /\ backup = Backup0
    /\ ingest = Ingest0
    /\ shared = Shared0
    /\ \E v \in Variants, m \in HashMaps :
          /\ boot = [k \in Inst |-> Booted(v)]
          /\ srch = Srch0(v)
          /\ refs = [Refs0 EXCEPT !.variant = v, !.live = {1}, !.cur = 1,
                                  !.heap = [r \in Refs |-> IF r = 1 THEN m ELSE EmptyMap]]

NextHash ==
    \/ \E p \in Docs, c \in Contents : SetFileHash(p, c)
    \/ \E p \in Docs, c \in Contents : UpdateFileHash(p, c)

SpecHash == InitHash /\ [][NextHash]_vars

----------------------------------------------------------------------------
(* process_document on its own: DocumentProcessor.process_document of the   *)
(* class variant, parse_document and elements_to_chunks of the functional   *)
(* variant.                                                                 *)

MaxElements == 2

\* What the partitioner may hand back for an element: a text (blank or not)
\* or no text attribute, and a metadata whose to_dict() returns or raises.
ElementKinds ==
    [text : {"alpha", " "}, has_text : BOOLEAN, meta_ok : BOOLEAN]

ElementLists ==
    UNION {[1..n -> ElementKinds] : n \in 0..MaxElements}

\* Whether the step of process_document is inside a try: nowhere (for
\* comparison).
ingest_try_never(v, step) == FALSE

\* Whether the step of process_document is inside a try: the whole body in
\* the class variant; in the functional variant parse_document has the try,
\* and process_document calls elements_to_chunks after it with none.
ingest_try(v, step) == IF v = "class" THEN TRUE ELSE step = "partition"

\* The call ends: it returns chunks, or the exception of a step leaves it.
IngestEnd(g, step, chunks, fs) ==
    IF fs # {} /\ ~ingest_try(g.variant, step)
    THEN [g EXCEPT !.pc = "idle", !.outcome = "raised", !.faults = fs, !.chunks = <<>>]
    ELSE [g EXCEPT !.pc = "idle", !.outcome = "returned", !.faults = fs,
                   !.chunks = IF fs # {} THEN <<>> ELSE chunks]

\* process_document(file_path) is called.
IngestBegin(v) ==
    /\ ingest.pc = "idle"
    /\ ingest.calls < 1
    /\ ingest.variant = v
    /\ ingest' = [ingest EXCEPT !.pc = "partition", !.calls = @ + 1]
    /\ UNCHANGED <<collection, boot, srch, refs, backup, shared>>
    /\ UNCHANGED syncVars

\* partition_pdf / partition_md / partition: returns the elements or raises;
\* parse_document returns [] when it raises, and elements_to_chunks goes on
\* with that list.
Partition(oks) ==
    /\ ingest.pc = "partition"
    /\ \E ok \in oks, els \in ElementLists :
         ingest' =
            IF ok
            THEN IF els = <<>>
                 THEN IngestEnd(ingest, "convert", <<>>, {})
                 ELSE [ingest EXCEPT !.pc = "convert", !.elements = els, !.i = 1]
            ELSE IngestEnd(ingest, "partition", <<>>, {"parse"})
    /\ UNCHANGED <<collection, boot, srch, refs, backup, shared>>
    /\ UNCHANGED syncVars

\* One turn of "for i, element in enumerate(elements)": an element with a
\* text that is not blank becomes a chunk, with element.metadata.to_dict().
Convert ==
    /\ ingest.pc = "convert"
    /\ LET e == ingest.elements[ingest.i]
           keep == e.has_text /\ KeepElement(e)
           chunks == IF keep
                     THEN Append(ingest.chunks, [i |-> ingest.i - 1, text |-> e.text])
                     ELSE ingest.chunks
       IN  ingest' =
              IF keep /\ ~e.meta_ok
              THEN IngestEnd(ingest, "convert", <<>>, {"convert"})
              ELSE IF ingest.i = Len(ingest.elements)
                   THEN IngestEnd(ingest, "convert", chunks, {})
                   ELSE [ingest EXCEPT !.i = @ + 1, !.chunks = chunks]
    /\ UNCHANGED <<collection, boot, srch, refs, backup, shared>>
    /\ UNCHANGED syncVars

InitIngest ==
    /\ SyncIdle
    /\ collection = Collection(EmbedDim)
    /\ refs = Refs0
    /\ backup = Backup0
    /\ \E v \in Variants :
          /\ boot = [k \in Inst |-> Booted(v)]
          /\ srch = Srch0(v)
          /\ ingest = [Ingest0 EXCEPT !.variant = v]
    /\ shared = Shared0

NextIngest ==
    \/ \E v \in Variants : IngestBegin(v)
    \/ Partition(BOOLEAN)
    \/ Convert

SpecIngest == InitIngest /\ [][NextIngest]_vars

----------------------------------------------------------------------------
(* Instances of KnowledgeBase bound to collections of their own, all on the *)
(* one file_hashes.json of the working directory.  Each call is taken as a  *)
(* whole and nothing fails: shared.chunks holds, per collection and path,   *)
(* the content whose chunks the collection holds.                           *)

\* KnowledgeBase() and KnowledgeBase(collection_name="finance_knowledge_HNSW").
CollNames == {"finance_knowledge", "finance_knowledge_HNSW"}

\* __init__: _initialize_collection, then _load_file_hashes reads the file
\* whatever collection the instance is bound to.
Construct(k) ==
    /\ k \notin shared.built
    /\ shared' = [shared EXCEPT !.built = @ \cup {k},
                                !.mem[k] = _load_file_hashes([readable |-> TRUE,
                                                              map |-> shared.disk]).map,
                                !.last = [k |-> k, op |-> "init", path |-> NoPath,
                                          result |-> "none", diskBefore |-> shared.disk]]
    /\ UNCHANGED <<collection, boot, srch, refs, backup, ingest>>
    /\ UNCHANGED syncVars

\* add_document with no failure: an unchanged file is skipped; a changed one
\* has its chunks replaced in the instance's collection, its hash set in the
\* instance's map, and the instance's whole map written to the file.
AddDocument(k, p) ==
    /\ k \in shared.built
    /\ shared.content[p] # NoFile
    /\ LET c == shared.content[p]
           mine == shared.coll[k]
           map == [shared.mem[k] EXCEPT ![p] = _get_file_hash(c)]
           call == [k |-> k, op |-> "add", path |-> p, result |-> "Unchanged",
                    diskBefore |-> shared.disk]
       IN  shared' =
              IF ~_file_changed(_get_file_hash(c), shared.mem[k][p])
              THEN [shared EXCEPT !.last = call]
              ELSE [shared EXCEPT
                       !.chunks = {x \in @ : ~(x.coll = mine /\ x.source = p)}
                                  \cup {[coll |-> mine, source |-> p, content |-> c]},
                       !.mem[k] = map,
                       !.disk = map,
                       !.last = [call EXCEPT !.result = "Indexed"]]
    /\ UNCHANGED <<collection, boot, srch, refs, backup, ingest>>
    /\ UNCHANGED syncVars

\* Two programs in one working directory with an empty hash file, the second
\* bound to the collection of the first or to another; no instance built yet.
InitShared ==
    /\ SyncIdle
    /\ collection = Collection(EmbedDim)
    /\ boot = [k \in Inst |-> Booted("class")]
    /\ srch = Srch0("class")
    /\ refs = Refs0
    /\ backup = Backup0
    /\ ingest = Ingest0
    /\ \E dir \in Files(Docs), name \in CollNames :
          shared = [Shared0 EXCEPT !.content = dir,
                                   !.coll = [k \in Inst |-> IF k = "monitor"
                                                            THEN "finance_knowledge"
                                                            ELSE name]]

NextShared ==
    \/ \E k \in Inst : Construct(k)
    \/ \E k \in Inst, p \in Docs : AddDocument(k, p)

SpecShared == InitShared /\ [][NextShared]_vars

----------------------------------------------------------------------------
(* backup_collection_data of tools/milvus_tool.py: the records of a         *)
(* collection are its ids 1..n; the loop is followed for MaxRounds queries. *)

MaxRecords == 3
MaxBatch == 2
MaxRounds == 3

RECURSIVE AsList(_)
\* The records of a result set as the list the client returns, by id.
AsList(S) ==
    IF S = {} THEN <<>>
    ELSE LET m == CHOOSE x \in S : \A y \in S : x <= y
         IN  <<m>> \o AsList(S \ {m})

\* query_data(client, collection_name, filter_expr="id >= 0", limit=limit):
\* the result sets Milvus may return, any limit of the records that match
\* (all of them when there are fewer).  The call has no offset to pass on.
query_data(records, limit) ==
    {S \in SUBSET records :
        Cardinality(S) = IF Cardinality(records) < limit THEN Cardinality(records)
                         ELSE limit}

\* Entry: has_collection; a missing collection is reported as a failure.
BackupBegin ==
    /\ backup.pc = "idle"
    /\ backup' = IF backup.exists
                 THEN [backup EXCEPT !.pc = "loop", !.all_data = <<>>, !.offset = 0]
                 ELSE [backup EXCEPT !.pc = "done", !.outcome = "failure"]
    /\ UNCHANGED <<collection, boot, srch, refs, ingest, shared>>
    /\ UNCHANGED syncVars

\* One round of the while loop: the query (ok = FALSE: query_data reports a
\* failure), break on a failed or empty result, else extend all_data, add
\* batch_size to offset, and break when the batch came back short.
BackupQuery(oks) ==
    /\ backup.pc = "loop"
    /\ backup.queries < MaxRounds
    /\ \E ok \in oks, data \in query_data(backup.records, backup.batch_size) :
          backup' =
             IF ~ok
             THEN [backup EXCEPT !.queries = @ + 1, !.faults = @ \cup {"query"},
                                 !.pc = "write"]
             ELSE IF data = {}
             THEN [backup EXCEPT !.queries = @ + 1, !.pc = "write"]
             ELSE [backup EXCEPT
                      !.queries = @ + 1,
                      !.all_data = @ \o AsList(data),
                      !.offset = @ + backup.batch_size,
                      !.pc = IF Cardinality(data) < backup.batch_size
                             THEN "write" ELSE "loop"]
    /\ UNCHANGED <<collection, boot, srch, refs, ingest, shared>>
    /\ UNCHANGED syncVars

\* After the loop: count = len(all_data), the dump to output_file and the
\* success result; a failing open or dump is reported as a failure.
BackupWrite(oks) ==
    /\ backup.pc = "write"
    /\ \E ok \in oks :
          backup' =
             IF ok
             THEN [backup EXCEPT !.pc = "done", !.outcome = "success",
                                 !.count = Len(backup.all_data)]
             ELSE [backup EXCEPT !.pc = "done", !.outcome = "failure",
                                 !.faults = @ \cup {"io"}]
    /\ UNCHANGED <<collection, boot, srch, refs, ingest, shared>>
    /\ UNCHANGED syncVars

\* A call on a collection of n records, present or not, with a batch size.
InitBackup ==
    /\ SyncIdle
    /\ collection = Collection(EmbedDim)
    /\ boot = [k \in Inst |-> Booted("class")]
    /\ srch = Srch0("class")
    /\ refs = Refs0
    /\ ingest = Ingest0
    /\ shared = Shared0
    /\ \E n \in 0..MaxRecords, b \in 1..MaxBatch, e \in BOOLEAN :
          backup = [Backup0 EXCEPT !.exists = e,
                                   !.records = IF e THEN 1..n ELSE {},
                                   !.batch_size = b]

NextBackup ==
    \/ BackupBegin
    \/ BackupQuery(BOOLEAN)
    \/ BackupWrite(BOOLEAN)

SpecBackup == InitBackup /\ [][NextBackup]_vars

----------------------------------------------------------------------------
(* Properties *)

\* Process k has returned from a call and not begun another.
Returned(k) == pc[k] = "idle" /\ h[k].result # "none"

ReturnedAdd(k) == Returned(k) /\ h[k].op = "add"

\* No call for path p is in progress in any process.
Quiet(p) == \A k \in Inst : pc[k] = "idle" \/ cur[k].path # p

\* The chunks add_document derives from the content it parsed.
ParsedChunks(k) == ChunkSet(process_document(h[k].path, h[k].parsed))

\* C1: whenever no call for a path is in progress, a path with a recorded
\* hash has at least one chunk in the store.
C1_HashImpliesChunks ==
    \A k \in Inst, p \in Paths :
        (Quiet(p) /\ file_hashes[k][p] # NoHash) => Stored(store, p) # {}

\* C2: the hash add_document records for a path is the hash of the content
\* that the same call parsed, whatever other writers do to the file meanwhile.
C2_HashOfParsedContent ==
    \A k \in Inst :
        h[k].memWrote => file_hashes[k][h[k].path] = _get_file_hash(h[k].parsed)

\* C3: when the embedding of any chunk fails (and nothing else does),
\* add_document aborts before any store mutation: the chunks stored for the
\* path before the call are all still there afterwards and the hash entry is
\* as it was.
C3_EmbedFailureKeepsOldChunks ==
    \A k \in Inst :
        (ReturnedAdd(k) /\ h[k].embedFails > 0 /\ h[k].faults = {"embed"}) =>
            /\ h[k].pre \subseteq h[k].post
            /\ h[k].postMem = h[k].preMem

\* C4: when add_document parses two or more chunks and the embedding fails for
\* some but not all of them (and nothing else fails), no chunk of the call is
\* inserted and the hash of the path is not advanced.
C4_PartialEmbeddingInsertsNothing ==
    \A k \in Inst :
        (ReturnedAdd(k) /\ h[k].embedCalls >= 2 /\ h[k].embedFails > 0
            /\ h[k].embedFails < h[k].embedCalls /\ h[k].faults = {"embed"}) =>
            /\ h[k].inserted = {}
            /\ h[k].postMem = h[k].preMem

\* The call process k has returned from is the second of two add_document
\* calls for a path whose file existed with the same content from the
\* beginning of the first call on.
SecondCallSameContent(k) ==
    /\ ReturnedAdd(k)
    /\ h[k].prev # "none"
    /\ h[k].clean1
    /\ ~dirty[k][h[k].path]
    /\ files[h[k].path] # NoFile

NoOp(k) ==
    /\ h[k].result = "Unchanged"
    /\ h[k].embedCalls = 0
    /\ h[k].storeWrites = 0
    /\ ~h[k].memWrote
    /\ ~h[k].diskWrote

\* C5 as stated: for a file whose content does not change between two
\* add_document calls, the second call returns Unchanged and makes no
\* embedding call, no store write and no hash-map write.
C5_SecondCallIsNoOp ==
    \A k \in Inst : SecondCallSameContent(k) => NoOp(k)

\* C5 amended: the same, provided the first call did not fail.
C5_SecondCallIsNoOpAfterSuccess ==
    \A k \in Inst : (SecondCallSameContent(k) /\ h[k].prev # "Failed") => NoOp(k)

C5_Witness ==
    \E k \in Inst :
        SecondCallSameContent(k) /\ h[k].prev = "Indexed" /\ h[k].result = "Unchanged"

\* The failures C6 lists: hashing/IO error, empty parse, embedding failure,
\* store delete or insert failure.
ListedFaults == {"io", "parse", "empty", "embed", "store"}

\* C6: whenever one of these steps of add_document fails, the hash entry of
\* the path, in memory and on disk, is what it was before the call.
C6_FailureLeavesHash ==
    \A k \in Inst :
        (ReturnedAdd(k) /\ h[k].faults # {} /\ h[k].faults \subseteq ListedFaults) =>
            /\ h[k].postMem = h[k].preMem
            /\ ~h[k].diskWrote

\* C7: after a file with stored chunks is edited and add_document succeeds
\* (every embedding succeeded), the chunks stored for the path are exactly the
\* chunks of the new content, each once, also when the delete step met a
\* store error.
C7_ReplaceIsExact ==
    \A k \in Inst :
        (ReturnedAdd(k) /\ h[k].result = "Indexed" /\ h[k].embedFails = 0
            /\ h[k].pre # {} /\ Shape(h[k].pre) # ParsedChunks(k)) =>
            /\ Shape(h[k].post) = ParsedChunks(k)
            /\ Cardinality(h[k].post) = Cardinality(ParsedChunks(k))

\* C8: after _remove_document (a watcher delete event) has run without any
\* store error, the store holds no chunk of the path and the hash map, in
\* memory and on disk, has no entry for the path.
C8_RemoveLeavesNoTrace ==
    \A k \in Inst :
        (Returned(k) /\ h[k].op = "remove" /\ h[k].faults = {}) =>
            /\ h[k].post = {}
            /\ h[k].postMem = NoHash
            /\ h[k].postDisk.readable
            /\ h[k].postDisk.map[h[k].path] = NoHash

\* C9: when two add_document calls for one path overlap, each parsing a
\* different version of the file, then after both have succeeded the chunks
\* stored for the path are exactly the chunks of one of the two versions.
C9_OverlapYieldsOneVersion ==
    \A k \in Inst, j \in Inst :
        (/\ k # j
         /\ ReturnedAdd(k) /\ ReturnedAdd(j)
         /\ h[k].path = h[j].path
         /\ j \in h[k].overlap /\ k \in h[j].overlap
         /\ h[k].result = "Indexed" /\ h[j].result = "Indexed"
         /\ h[k].parsed # h[j].parsed) =>
            LET now == Stored(store, h[k].path)
            IN  /\ Shape(now) \in {ParsedChunks(k), ParsedChunks(j)}
                /\ Cardinality(now) = Cardinality(Shape(now))

\* C10: the create/modify events of one burst for a path (each arriving while
\* an earlier one is still queued or being handled) lead to at most one
\* completed resync of the path.
C10_BurstOneResync ==
    \A k \in Watchers, p \in Paths : burst[k][p] <= 1

C12_SavedBeforeReturn ==
    \A k \in Inst :
        (ReturnedAdd(k) /\ h[k].result = "Indexed") =>
            /\ h[k].postDisk.readable
            /\ h[k].postMem # NoHash
            /\ h[k].postDisk.map[h[k].path] = h[k].postMem

\* C13: a process killed during _save_file_hashes leaves a hash file that the
\* next _load_file_hashes reads without error, as the map saved before or as
\* the map that was being saved.
C13_SaveIsAtomic ==
    \A k \in Inst :
        (phase[k] = "stopped" /\ h[k].killedAt \in {"save_open", "save_dump"}) =>
            /\ ~_load_file_hashes(hash_file).raises
            /\ _load_file_hashes(hash_file).map \in {h[k].preDisk.map, h[k].killedMem}

\* C14: an initialisation call that begins when the collection exists makes
\* no embedding call and no create request, ends normally and leaves the
\* collection as it found it; so a second call in sequence changes nothing.
C14_InitIdempotent ==
    \A k \in Inst :
        (boot[k].calls > 0 /\ boot[k].before.exists) =>
            /\ boot[k].probes = 0 /\ boot[k].requests = 0
            /\ boot[k].outcome \in {"none", "exists"}
            /\ collection = boot[k].before

\* A process created the collection in its first call and has returned from
\* its second, which found the collection.
C14_Witness ==
    \E k \in Inst :
        /\ boot[k].calls = 2 /\ boot[k].created = 1
        /\ boot[k].pc = "idle" /\ boot[k].outcome = "exists"

\* C15: of two processes that initialise the same collection with a usable
\* dimension, at most one issues a create request, and none fails at the
\* create request.
C15_OneCreateRequest ==
    \A j, k \in Inst :
        (j # k /\ boot[j].dimension >= 1 /\ boot[k].dimension >= 1) =>
            /\ ~(boot[j].requests > 0 /\ boot[k].requests > 0)
            /\ boot[k].outcome # "fatal_create"

C16_WrongDimensionAborts ==
    \A k \in Inst :
        (ReturnedAdd(k) /\ h[k].faults \subseteq {"dim", "rejected"} /\ "dim" \in h[k].faults) =>
            /\ h[k].result = "Failed"
            /\ h[k].deleted = {} /\ h[k].inserted = {}
            /\ h[k].post = h[k].pre
            /\ h[k].postMem = h[k].preMem /\ ~h[k].diskWrote

\* C18: search never raises, and it returns the empty list when the query
\* embedding fails or is empty (then without having called the store's
\* search), when the collection does not exist, and when a store call raises.
C18_SearchNeverRaises ==
    /\ srch.outcome # "raised"
    /\ srch.pc = "done" =>
        /\ srch.faults # {} => srch.results = <<>>
        /\ "embed" \in srch.faults => srch.searches = 0
        /\ ~collection.exists => srch.results = <<>> /\ srch.searches = 0

\* A search of a collection that holds records has returned after its query
\* embedding failed.
C18_Witness ==
    /\ srch.pc = "done" /\ srch.found
    /\ srch.faults = {"embed"} /\ srch.outcome = "returned"

\* C19: a search that met no failure returns at most limit results, in the
\* order of the store's hits and each with the store's distance as its score,
\* so with scores never increasing.
C19_ResultsAsTheStoreRanksThem ==
    (srch.pc = "done" /\ srch.faults = {}) =>
        /\ Len(srch.results) <= srch.limit
        /\ Len(srch.results) = Len(srch.hits)
        /\ \A n \in 1..Len(srch.results) :
            /\ srch.results[n].score = srch.hits[n].distance
            /\ srch.results[n].text = srch.hits[n].entity.text
            /\ srch.results[n].score = Similarity(srch.query, CHOOSE r \in store : r.text = srch.results[n].text)
        /\ \A m, n \in 1..Len(srch.results) :
            m < n => srch.results[m].score >= srch.results[n].score

\* A search with limit 1 of two records returned the closer one.
C19_Witness ==
    /\ srch.pc = "done" /\ srch.faults = {}
    /\ Cardinality(store) > srch.limit
    /\ Len(srch.results) = srch.limit
    /\ \E r \in store : Similarity(srch.query, r) < srch.results[1].score

\* C20: a file whose suffix, lower-cased, is not .pdf, .md, .txt, .docx or
\* .html is never the argument of add_document or _remove_document, whether
\* the scan or a watcher event met it: it is no call's path, no record's
\* source and no key with a hash, in memory or on disk.
C20_UnsupportedNeverSynced ==
    \A p \in Paths \ Docs :
        /\ \A k \in Inst :
            /\ cur[k].path # p /\ h[k].path # p
            /\ \A n \in 1..Len(todo[k]) : todo[k][n] # p
            /\ file_hashes[k][p] = NoHash
        /\ hash_file.map[p] = NoHash
        /\ Stored(store, p) = {}

\* The one write made so far created or changed an unsupported file, and
\* the watcher has taken its event and dropped it.
C20_Witness ==
    \E k \in Watchers, p \in Paths \ Docs :
        /\ h[k].ignored = p /\ files[p] # NoFile
        /\ phase[k] = "watch" /\ edits = 1

----------------------------------------------------------------------------
(* C21: a failure on one file does not end the scan *)

Count(seq, p) == Cardinality({n \in 1..Len(seq) : seq[n] = p})

\* C21: no exception leaves add_document, so the scan is never cut short:
\* while it runs, every file of the walk has been handed to add_document once
\* or is still to come, once; when it is over, add_document has been called
\* exactly once for every file of the walk and for no other; and the scan
\* can always take a step until it is over.
C21_FailureDoesNotEndScan ==
    \A k \in Inst :
        /\ phase[k] # "dead"
        /\ h[k].result # "Raised"
        /\ phase[k] \in {"scan", "watch", "exit"} =>
              \A p \in Paths :
                  h[k].visits[p] + Count(todo[k], p) = Count(h[k].walk, p)
        /\ phase[k] \in {"watch", "exit"} => todo[k] = <<>>
        /\ phase[k] = "scan" => ENABLED ScanActs(k, BOOLEAN)

\* The scan is over: the call for the first file of the walk failed, and the
\* file after it was indexed all the same.
C21_Witness ==
    \E k \in Inst :
        /\ phase[k] = "exit"
        /\ h[k].walk = <<PathOrder[1], PathOrder[3]>>
        /\ prevRes[k][PathOrder[1]] = "Failed"
        /\ prevRes[k][PathOrder[3]] = "Indexed"
        /\ h[k].visits[PathOrder[1]] = 1 /\ h[k].visits[PathOrder[3]] = 1
        /\ h[k].path = PathOrder[3] /\ h[k].faults = {}
----------------------------------------------------------------------------
(* C22: Ctrl-C and the call in flight *)

\* C22: once the monitor has been told to stop, the add_document that was in
\* flight has run to its end (where it deleted the old chunks of the path it
\* has inserted the new ones), and no call has begun after the stop.
C22_ShutdownCompletesInFlight ==
    \A k \in Watchers :
        /\ ~h[k].late
        /\ (/\ phase[k] \in {"exit", "dead"}
            /\ h[k].stopAt \notin {"none", "idle"}
            /\ h[k].op = "add"
            /\ h[k].faults \subseteq {"interrupt"}
            /\ h[k].deleted # {})
           => h[k].inserted # {}

\* The same for a stop that arrives once the observer runs (for comparison).
C22_WatchingOnly ==
    \A k \in Watchers :
        /\ ~h[k].late
        /\ (/\ phase[k] \in {"exit", "dead"}
            /\ h[k].stopIn = "watch"
            /\ h[k].stopAt \notin {"none", "idle"}
            /\ h[k].op = "add"
            /\ h[k].faults \subseteq {"interrupt"}
            /\ h[k].deleted # {})
           => h[k].inserted # {}

C22_WatchingWitness ==
    \E k \in Watchers :
        /\ phase[k] = "exit" /\ h[k].stopIn = "watch" /\ h[k].stopAt = "embed"
        /\ h[k].op = "add" /\ h[k].deleted # {} /\ h[k].inserted # {}
----------------------------------------------------------------------------
(* C23: one sync at a time for a path *)

\* C23: while a call of add_document for a path is between its delete and
\* its insert, no other call for the same path, in this process or in any
\* other, is at its own delete or between its own delete and insert.
C23_OneSyncPerPath ==
    \A k \in Inst :
        pc[k] \in {"embed", "insert"} =>
            \A j \in Concurrent(k, cur[k].path) : pc[j] \notin {"delete", "embed", "insert"}
----------------------------------------------------------------------------
(* C24: a failed sync is tried again *)

\* The file of the returned call was not written or deleted while the call
\* ran: what the call read is the content the file has now.
SameContent(k) == files[h[k].path] # NoFile /\ ~dirty[k][h[k].path]

\* C24: the add_document that follows a failed one for the same path does not
\* take the file for unchanged while its content differs from the recorded
\* hash; and when nothing fails this time, it ends with exactly the chunks of
\* the file's content in the store and the content's hash recorded, in
\* memory and on disk.
C24_FailedIsRetried ==
    \A k \in Inst :
        (ReturnedAdd(k) /\ h[k].prev = "Failed" /\ SameContent(k)
            /\ h[k].preMem # _get_file_hash(files[h[k].path]))
        => /\ h[k].result # "Unchanged"
           /\ h[k].faults = {} =>
                 /\ h[k].result = "Indexed"
                 /\ Shape(h[k].post) = ChunkSet(process_document(h[k].path, files[h[k].path]))
                 /\ h[k].postMem = _get_file_hash(files[h[k].path])
                 /\ h[k].postDisk.map[h[k].path] = h[k].postMem

\* The first call failed at the embeddings after the old chunks of an
\* earlier version were deleted; the second one indexed the file.
C24_Witness ==
    \E k \in Inst :
        /\ ReturnedAdd(k) /\ h[k].prev = "Failed" /\ SameContent(k)
        /\ h[k].preMem # NoHash
        /\ h[k].preMem # _get_file_hash(files[h[k].path])
        /\ h[k].pre = {}
        /\ h[k].faults = {} /\ h[k].result = "Indexed"
----------------------------------------------------------------------------
(* C25: a sync or a removal touches one source only *)

\* The records of source q in a set of records.
OfSource(recs, q) == {r \in recs : r.source = q}

\* The call of process k has passed _remove_document with no store error.
RemoveDone(k) ==
    /\ h[k].op \in {"add", "remove"}
    /\ "store" \notin h[k].faults
    /\ \/ pc[k] \in {"embed", "insert", "hash", "save_open", "save_dump"}
       \/ Returned(k) /\ (h[k].op = "remove" \/ h[k].embedCalls > 0)

\* C25: the delete of _remove_document takes out exactly the records whose
\* source is the path, as many as it reports, and none where there is no
\* match or the store fails; and from the start of a call for a path to
\* its end the records, the hash in memory and (once the call has returned)
\* the hash on disk of every other path are what they were.
C25_OneSourceOnly ==
    \A k \in Inst :
        h[k].op \in {"add", "remove"} =>
            /\ h[k].deleted \subseteq OfSource(h[k].preStore, h[k].path)
            /\ h[k].removed = Cardinality(h[k].deleted)
            /\ RemoveDone(k) => h[k].deleted = OfSource(h[k].preStore, h[k].path)
            /\ \A q \in Paths \ {h[k].path} :
                  /\ OfSource(store, q) = OfSource(h[k].preStore, q)
                  /\ file_hashes[k][q] = h[k].preMaps[q]
                  /\ Returned(k) => h[k].postDisk.map[q] = h[k].preDisk.map[q]

\* The same for the records and the hashes in memory alone (for comparison).
C25_OneSourceOnlyInMemory ==
    \A k \in Inst :
        h[k].op \in {"add", "remove"} =>
            /\ h[k].deleted \subseteq OfSource(h[k].preStore, h[k].path)
            /\ h[k].removed = Cardinality(h[k].deleted)
            /\ RemoveDone(k) => h[k].deleted = OfSource(h[k].preStore, h[k].path)
            /\ \A q \in Paths \ {h[k].path} :
                  /\ OfSource(store, q) = OfSource(h[k].preStore, q)
                  /\ file_hashes[k][q] = h[k].preMaps[q]

\* The first document was indexed over an older version, whose two records
\* were deleted and counted, while the records and the hash of the last
\* document stayed as they were.
C25_InMemoryWitness ==
    \E k \in Inst :
        /\ ReturnedAdd(k) /\ h[k].result = "Indexed" /\ h[k].faults = {}
        /\ h[k].removed = 2
        /\ \E q \in Paths \ {h[k].path} :
              /\ OfSource(store, q) # {}
              /\ file_hashes[k][q] # NoHash
----------------------------------------------------------------------------
(* C26: the map that scan_and_add_directory returns *)

\* scan_and_add_directory has returned its map to process k.
ScanReturned(k) == phase[k] \in {"save_open", "save_dump", "exit"}

\* C26: each add_document_to_kb of the scan hands back the map it was given,
\* with the hash of the file's content in place of the path's entry when it
\* returns True and as it was otherwise; and the map the scan returns holds
\* an entry other than the input map's only for the files of the walk whose
\* call returned True, in the order of the walk.
C26_ScanFoldsTheMap ==
    \A k \in Inst :
        /\ (ReturnedAdd(k) /\ h[k].trigger = "scan") =>
              file_hashes[k] =
                  IF h[k].result = "Indexed"
                  THEN [h[k].preMaps EXCEPT ![h[k].path] = _get_file_hash(h[k].hashed)]
                  ELSE h[k].preMaps
        /\ ScanReturned(k) =>
              \A p \in Paths :
                  IF Count(h[k].walk, p) = 1 /\ prevRes[k][p] = "Indexed"
                  THEN file_hashes[k][p] \in {_get_file_hash(c) : c \in Contents}
                  ELSE file_hashes[k][p] = h[k].scanIn[p]

\* The scan has returned: the first file was indexed, the call for the last
\* one failed, and the map holds the new hash of the first and the input
\* map's hash of the last.
C26_Witness ==
    \E k \in Inst :
        /\ ScanReturned(k)
        /\ h[k].walk = <<PathOrder[1], PathOrder[3]>>
        /\ prevRes[k][PathOrder[1]] = "Indexed"
        /\ prevRes[k][PathOrder[3]] = "Failed"
        /\ h[k].scanIn[PathOrder[3]] # NoHash
        /\ file_hashes[k] = [h[k].scanIn EXCEPT ![PathOrder[1]] = _get_file_hash(files[PathOrder[1]])]
        /\ files[PathOrder[1]] # NoFile
----------------------------------------------------------------------------
(* C27: the hash update and the map it was given *)

\* The hash map the program holds after the call differs from the one it
\* held before the call at the call's path only, where it has the hash of
\* the file's content.
UpdatedAtPathOnly ==
    /\ refs.heap[refs.out][refs.path] = _get_file_hash(refs.content)
    /\ \A q \in Paths \ {refs.path} : refs.heap[refs.out][q] = refs.before[q]

\* C27: after a hash update the map held now is the one held before,
\* changed at the path only, and the dict that was held before the update
\* still reads as it did then.
C27_UpdateLeavesInput ==
    refs.calls > 0 => UpdatedAtPathOnly /\ refs.heap[refs.snap] = refs.before

\* The same for update_file_hash of the functional variant alone (for
\* comparison).
C27_FunctionalLeavesInput ==
    (refs.calls > 0 /\ refs.variant = "functional") =>
        UpdatedAtPathOnly /\ refs.heap[refs.snap] = refs.before

C27_FunctionalWitness ==
    /\ refs.calls > 0 /\ refs.variant = "functional"
    /\ refs.before[refs.path] \notin {NoHash, _get_file_hash(refs.content)}
    /\ \E q \in Paths \ {refs.path} : refs.before[q] # NoHash
----------------------------------------------------------------------------
(* C28: process_document never raises *)

\* process_document has returned or raised.
Ingested == ingest.pc = "idle" /\ ingest.outcome # "none"

\* Every chunk has a text that is not blank.
NoBlankChunk == \A n \in 1..Len(ingest.chunks) : strip(ingest.chunks[n].text) # ""

\* C28: process_document always returns; when the partitioner or the
\* conversion of an element failed it returns the empty list; and no chunk
\* it returns has a blank text.
C28_IngestNeverRaises ==
    Ingested =>
        /\ ingest.outcome = "returned"
        /\ ingest.faults # {} => ingest.chunks = <<>>
        /\ NoBlankChunk

\* The same for DocumentProcessor.process_document of the class variant
\* alone (for comparison).
C28_ClassNeverRaises ==
    (Ingested /\ ingest.variant = "class") =>
        /\ ingest.outcome = "returned"
        /\ ingest.faults # {} => ingest.chunks = <<>>
        /\ NoBlankChunk

\* The second element failed in the conversion after the first had become a
\* chunk, and the class variant returned the empty list.
C28_ClassWitness ==
    /\ Ingested /\ ingest.variant = "class"
    /\ ingest.faults = {"convert"} /\ ingest.i = 2
    /\ ingest.outcome = "returned" /\ ingest.chunks = <<>>
----------------------------------------------------------------------------
(* C29: instances bound to different collections on one hash file *)

\* C29: an instance that holds a hash for a path has chunks for that path
\* in the collection it is bound to; a file skipped as unchanged has chunks
\* in the collection of the instance that skipped it; and a save of one
\* instance leaves in the file every entry that was there before it.
C29_HashesPerCollection ==
    /\ \A k \in shared.built, p \in Paths :
          shared.mem[k][p] # NoHash =>
              \E x \in shared.chunks : x.coll = shared.coll[k] /\ x.source = p
    /\ shared.last.result = "Unchanged" =>
          \E x \in shared.chunks : /\ x.coll = shared.coll[shared.last.k]
                                    /\ x.source = shared.last.path
    /\ shared.last.result = "Indexed" =>
          \A q \in Paths : shared.last.diskBefore[q] # NoHash => shared.disk[q] # NoHash
----------------------------------------------------------------------------
(* C30: backup_collection_data *)

\* C30: the backup never asks more often than reading the records batch by
\* batch takes, never holds a record twice, and a backup that no failure
\* disturbed and that reports success holds every record of the collection
\* once, with count the number of records.
C30_BackupEachRecordOnce ==
    /\ backup.queries <= (Cardinality(backup.records) \div backup.batch_size) + 1
          \/ backup.pc = "idle"
    /\ \A r \in backup.records : Count(backup.all_data, r) <= 1
    /\ (backup.outcome = "success" /\ backup.faults = {}) =>
          /\ \A r \in backup.records : Count(backup.all_data, r) = 1
          /\ backup.count = Cardinality(backup.records)
============================================================================
